---- MODULE Spec2Model ----
(***************************************************************************)
(* PDF black/white converter (src/main.py): the page-range parser, the     *)
(* per-file conversion pipeline convert_pdf_to_bw and the batch            *)
(* orchestration of PDFConverterApp (start_conversion, convert_next_file,  *)
(* run_conversion).                                                        *)
(*                                                                         *)
(* Strings are sequences of one-character strings, so that split, strip    *)
(* and int are computed character by character as Python computes them.    *)
(***************************************************************************)
EXTENDS Integers, Sequences, FiniteSets, TLC

\* ------------------------------------------------------------------ bounds
\* longest raw expression string enumerated for parse_page_range
MaxLen == 4
\* largest page number written in a generated well-formed expression
MaxNum == 3
\* largest page count of a document
MaxPages == 2
\* most terms in a generated well-formed expression
MaxTerms == 2

\* ------------------------------------------------ Python string primitives
Digits == {"0", "1", "2", "3", "4", "5", "6", "7", "8", "9"}

\* the characters raw expressions are drawn from
Alphabet == {"1", "2", "a", "-", ",", " "}

DigitVal(c) ==
    CASE c = "0" -> 0 [] c = "1" -> 1 [] c = "2" -> 2 [] c = "3" -> 3
      [] c = "4" -> 4 [] c = "5" -> 5 [] c = "6" -> 6 [] c = "7" -> 7
      [] c = "8" -> 8 [] c = "9" -> 9

RECURSIVE LStrip(_)
LStrip(s) == IF s # <<>> /\ Head(s) = " " THEN LStrip(Tail(s)) ELSE s

RECURSIVE RStrip(_)
RStrip(s) ==
    IF s # <<>> /\ s[Len(s)] = " " THEN RStrip(SubSeq(s, 1, Len(s) - 1)) ELSE s

\* str.strip()
Strip(s) == RStrip(LStrip(s))

\* sep in s
Contains(s, sep) == \E i \in DOMAIN s : s[i] = sep

\* str.split(sep): the pieces between the separators, empty pieces kept
RECURSIVE SplitFrom(_, _, _)
SplitFrom(s, sep, cur) ==
    IF s = <<>> THEN <<cur>>
    ELSE IF Head(s) = sep THEN <<cur>> \o SplitFrom(Tail(s), sep, <<>>)
    ELSE SplitFrom(Tail(s), sep, Append(cur, Head(s)))

Split(s, sep) == SplitFrom(s, sep, <<>>)

\* int(s) succeeds on a stripped token: all of it decimal digits
IsInt(s) == s # <<>> /\ \A i \in DOMAIN s : s[i] \in Digits

\* int(s): the decimal value
RECURSIVE IntOf(_)
IntOf(s) ==
    IF s = <<>> THEN 0 ELSE 10 * IntOf(SubSeq(s, 1, Len(s) - 1)) + DigitVal(s[Len(s)])

Max(a, b) == IF a >= b THEN a ELSE b
Min(a, b) == IF a <= b THEN a ELSE b

\* list(range(lo, hi))
PyRange(lo, hi) == IF hi <= lo THEN <<>> ELSE [i \in 1..(hi - lo) |-> lo + i - 1]

\* set(pages)
ToSet(pages) == {pages[i] : i \in DOMAIN pages}

SetMin(S) == CHOOSE x \in S : \A y \in S : x <= y

\* sorted(S)
RECURSIVE Sorted(_)
Sorted(S) == IF S = {} THEN <<>> ELSE <<SetMin(S)>> \o Sorted(S \ {SetMin(S)})

\* ------------------------------------------------------- parse_page_range
\* A call either returns a list or raises ValueError.
Returned(pages) == [kind |-> "ok", pages |-> pages]
Raised == [kind |-> "raise", pages |-> <<>>]

\* ClampStart with the max forgotten
ClampStartNone(start) == start
\* the bounds of a "start-end" term: start = max(1, start), end = min(total, end)
ClampStart(start) == Max(1, start)
ClampEnd(end, total_pages) == Min(total_pages, end)

\* the pages one range term adds (lines 76-81), once both ints have parsed
RangeTerm(s, e, total_pages) ==
    LET start == IF s # <<>> THEN IntOf(s) ELSE 1
        end == IF e # <<>> THEN IntOf(e) ELSE total_pages
    IN  PyRange(ClampStart(start) - 1, ClampEnd(end, total_pages))

\* the pages one singleton term adds (lines 83-89): ValueError is caught here
SingleTerm(part, total_pages) ==
    IF part = <<>> \/ ~IsInt(part) THEN <<>>
    ELSE IF 1 <= IntOf(part) /\ IntOf(part) <= total_pages
         THEN <<IntOf(part) - 1>>
         ELSE <<>>

\* Finish with the sort and the set forgotten
FinishAsCollected(pages) == pages
\* the final statement: duplicates removed, ascending
Finish(pages) == Sorted(ToSet(pages))

\* the loop over the comma-separated parts (lines 71-89)
RECURSIVE ParseParts(_, _, _)
ParseParts(parts, total_pages, pages) ==
    IF parts = <<>> THEN Returned(Finish(pages))
    ELSE
      LET part == Strip(Head(parts)) IN
      IF Contains(part, "-")
      THEN LET start_end == Split(part, "-") IN
           IF Len(start_end) = 2
           THEN LET s == Strip(start_end[1])
                    e == Strip(start_end[2])
                IN  IF (s # <<>> /\ ~IsInt(s)) \/ (e # <<>> /\ ~IsInt(e))
                    THEN Raised    \* int() raises ValueError, not caught here
                    ELSE ParseParts(Tail(parts), total_pages,
                                    pages \o RangeTerm(s, e, total_pages))
           ELSE ParseParts(Tail(parts), total_pages, pages)
      ELSE ParseParts(Tail(parts), total_pages,
                      pages \o SingleTerm(part, total_pages))

parse_page_range(page_range_str, total_pages) ==
    IF Strip(page_range_str) = <<>>
    THEN Returned(PyRange(0, total_pages))
    ELSE ParseParts(Split(page_range_str, ","), total_pages, <<>>)

\* ---------------------------------------------------- the bitonal point
\* gray_img.point(lambda x: 0 if x < threshold else 255, '1'), line 151: in
\* an image of mode '1' the value 0 is a black pixel, 255 a white one
Black == 0
White == 255
\* the point operation with <= for <
bw_point_inclusive(x, threshold) == IF x <= threshold THEN Black ELSE White
bw_point(x, threshold) == IF x < threshold THEN Black ELSE White

\* ------------------------------------------- inputs of parse_page_range
\* every string over Alphabet of length at most n
RECURSIVE StringsUpTo(_)
StringsUpTo(n) ==
    IF n = 0 THEN {<<>>}
    ELSE LET shorter == StringsUpTo(n - 1)
         IN  shorter \cup {Append(s, c) : s \in shorter, c \in Alphabet}

\* A term of a well-formed expression: a singleton page number, or a range
\* whose start and end may be missing (Missing).
Missing == 0 - 1
SingleTerms == [kind : {"single"}, a : 0..MaxNum, b : {Missing}]
RangeTerms == [kind : {"range"}, a : {Missing} \cup 0..MaxNum, b : {Missing} \cup 0..MaxNum]
Terms == SingleTerms \cup RangeTerms

RECURSIVE TermSeqsUpTo(_)
TermSeqsUpTo(n) ==
    IF n = 0 THEN {<<>>}
    ELSE LET shorter == TermSeqsUpTo(n - 1)
         IN  shorter \cup {Append(ts, t) : ts \in shorter, t \in Terms}

DigitSeq == <<"0", "1", "2", "3", "4", "5", "6", "7", "8", "9">>

\* the decimal numeral of n >= 0
RECURSIVE NumStr(_)
NumStr(n) ==
    IF n < 10 THEN <<DigitSeq[n + 1]>>
    ELSE NumStr(n \div 10) \o <<DigitSeq[(n % 10) + 1]>>

OptNum(n) == IF n = Missing THEN <<>> ELSE NumStr(n)

\* the text of a term and of a comma-separated expression
TermStr(t) ==
    IF t.kind = "single" THEN NumStr(t.a) ELSE OptNum(t.a) \o <<"-">> \o OptNum(t.b)

RECURSIVE ExprStr(_)
ExprStr(ts) ==
    IF Len(ts) = 1 THEN TermStr(ts[1])
    ELSE TermStr(ts[1]) \o <<",">> \o ExprStr(Tail(ts))

ParseInput(expr, total, terms, wf) ==
    [expr |-> expr, total |-> total, terms |-> terms, wf |-> wf]

\* the worked examples of the specification (section 8)
Ex1Terms == <<[kind |-> "range", a |-> 1, b |-> 3], [kind |-> "single", a |-> 5, b |-> Missing]>>
Ex2Terms == <<[kind |-> "range", a |-> 8, b |-> 20]>>
Ex3Terms == <<[kind |-> "single", a |-> 0, b |-> Missing], [kind |-> "range", a |-> Missing, b |-> 3]>>
Ex4Str == <<"a", "b", "c", ",", "2">>

ExampleInputs ==
    { ParseInput(ExprStr(Ex1Terms), 10, Ex1Terms, TRUE),
      ParseInput(ExprStr(Ex2Terms), 10, Ex2Terms, TRUE),
      ParseInput(ExprStr(Ex3Terms), 5, Ex3Terms, TRUE),
      ParseInput(Ex4Str, 5, <<>>, FALSE) }

\* ----------------------------------------------------- the world of files
\* bounds of the batch model
\* most operations of the user on the form (a selection of files, an edit
\* of a field, a click on "Konvertieren") in one run of the application
MaxUiOps == 3
\* latest reading of the clock (one value per second)
MaxClock == 2

\* A path is <<directory, file name without the extension>>; every file of
\* the model has the extension ".pdf", which generate_output_path keeps.
FileA == <<"d1", "a">>
FileB == <<"d1", "b">>
FileC == <<"d1", "c">>
\* a file of the same name in another directory
FileA2 == <<"d2", "a">>

\* what the file dialog can return: a selection from the directory listing
FileLists ==
    { <<FileA>>, <<FileB>>, <<FileC>>, <<FileA, FileC>>, <<FileA, FileA2>>,
      <<FileA, FileB, FileC>> }

\* the content of an existing file: a document of some pages ("pdf"), bytes
\* that do not open as a document ("corrupt"), a file just created or
\* truncated ("empty"), a partly written file ("partial"). from is the
\* input it was converted from, NoSource for a file not written by a run.
NoSource == <<"", "">>
Doc(n) == [st |-> "pdf", pages |-> n, from |-> NoSource]
Corrupt == [st |-> "corrupt", pages |-> 0, from |-> NoSource]
Converted(n, input) == [st |-> "pdf", pages |-> n, from |-> input]
Empty(input) == [st |-> "empty", pages |-> 0, from |-> input]
Partial(input) == [st |-> "partial", pages |-> 0, from |-> input]

\* what the form's fields are drawn from
NoText == <<>>
PageRangeChoices == {NoText, <<" ">>, <<"2">>, <<"a", "-", "3">>}
OverwriteChoices == {"ask", "overwrite", "skip"}
OutputDirChoices == {"", "out"}
SuffixChoices == {"_SW", ""}

\* ------------------------------------------------------------------ state
VARIABLES
    px,         \* the point operation on one pixel: gray value, threshold, result
    p_in,       \* parse_page_range: the arguments of the call
    p_pc,       \* parse_page_range: "input" before the call, "done" after
    p_res,      \* parse_page_range: what the call returned or raised
    input_files,          \* self.input_files
    current_file_index,   \* self.current_file_index
    total_files,          \* self.total_files
    page_range_entry,     \* the text of self.page_range_entry
    overwrite_var,        \* self.overwrite_var
    output_dir_entry,     \* the text of self.output_dir_entry
    suffix_entry,         \* the text of self.suffix_entry
    timestamp_var,        \* self.timestamp_var
    settings,             \* self.settings (the keys the batch reads)
    btn_enabled,          \* self.convert_btn is in state NORMAL
    main,                 \* the event-loop thread: where it is, and the
                          \* locals of convert_next_file
    after_cnf,            \* root.after(10, self.convert_next_file) is pending
    w,                    \* the worker thread running run_conversion
    fs,                   \* the file system: existing path -> content
    clock,                \* the last reading of datetime.now()
    outcomes,             \* history: the terminal outcome reported per file
    hist                  \* history: the user's operations so far (ui_ops),
                          \* batch-complete events (completed), an exception
                          \* in a callback (crashed), the list the running
                          \* batch was started with (batch), whether the
                          \* list was changed while it ran (disturbed), and
                          \* the form as it was when the batch was started
                          \* (form), and the outputs the batch has written,
                          \* each with its input (written)

\* the variables of the two pure functions
parse_vars == <<px, p_in, p_pc, p_res>>
form_vars == <<page_range_entry, overwrite_var, output_dir_entry, suffix_entry, timestamp_var>>
batch_vars == <<input_files, current_file_index, total_files, settings, btn_enabled,
                main, after_cnf, w, fs, clock, outcomes, hist>>
vars == <<px, p_in, p_pc, p_res, input_files, current_file_index, total_files,
          page_range_entry, overwrite_var, output_dir_entry, suffix_entry,
          timestamp_var, settings, btn_enabled, main, after_cnf, w, fs, clock,
          outcomes, hist>>

\* ------------------------------------- specification of parse_page_range
\* the application just constructed (__init__, lines 194-206)
MainIdle == [pc |-> "idle", input |-> NoSource, output |-> NoSource]
NoRange == [none |-> TRUE, pages |-> <<>>]
WorkerNone ==
    [pc |-> "none", input |-> NoSource, output |-> NoSource, page_range |-> NoRange,
     expr |-> NoText, todo |-> <<>>, idx |-> 0, encoded |-> <<>>, rastered |-> 0,
     success |-> FALSE, before |-> Corrupt, existed |-> FALSE, progress |-> <<>>]
\* the fields of the form a batch reads
Form == [page_range |-> page_range_entry, overwrite |-> overwrite_var,
         output_dir |-> output_dir_entry, suffix |-> suffix_entry]
NoForm == [page_range |-> NoText, overwrite |-> "ask", output_dir |-> "", suffix |-> "_SW"]
HistNone ==
    [ui_ops |-> 0, completed |-> 0, crashed |-> FALSE, batch |-> <<>>, disturbed |-> FALSE,
     form |-> NoForm, written |-> <<>>]
\* no pixel is being converted
NoPixel == [pc |-> "unused", x |-> 0, threshold |-> 0, out |-> 0]

AppConstructed ==
    /\ input_files = <<>>
    /\ current_file_index = 0
    /\ total_files = 0
    /\ timestamp_var = FALSE
    /\ btn_enabled = TRUE
    /\ main = MainIdle
    /\ after_cnf = FALSE
    /\ w = WorkerNone
    /\ clock = 1
    /\ outcomes = <<>>
    /\ hist = HistNone

\* DEFAULT_SETTINGS, lines 33-43, as __init__ puts them in the form
DefaultForm ==
    /\ page_range_entry = NoText
    /\ overwrite_var = "ask"
    /\ output_dir_entry = ""
    /\ suffix_entry = "_SW"
    /\ settings = [overwrite |-> "ask"]

\* The arguments are any raw string, or a well-formed expression together
\* with the terms it was written from, or one of the worked examples.
InitParse ==
    /\ \/ \E s \in StringsUpTo(MaxLen), n \in 0..MaxPages :
            p_in = ParseInput(s, n, <<>>, FALSE)
       \/ \E ts \in TermSeqsUpTo(MaxTerms) \ {<<>>}, n \in 0..MaxPages :
            p_in = ParseInput(ExprStr(ts), n, ts, TRUE)
       \/ p_in \in ExampleInputs
    /\ p_pc = "input"
    /\ p_res = Returned(<<>>)
    /\ AppConstructed
    /\ DefaultForm
    /\ fs = (FileA :> Doc(MaxPages))
    /\ px = NoPixel

ParseCall ==
    /\ p_pc = "input"
    /\ p_res' = parse_page_range(p_in.expr, p_in.total)
    /\ p_pc' = "done"
    /\ UNCHANGED <<px, p_in, form_vars, batch_vars>>

NextParse == ParseCall

SpecParse == InitParse /\ [][NextParse]_vars

\* ------------------------------------------ specification of the bitonal point
\* the largest value of a pixel of a mode 'L' image, and of the threshold
MaxGray == 255

InitPixel ==
    /\ px \in [pc : {"input"}, x : 0..MaxGray, threshold : 0..MaxGray, out : {White}]
    /\ p_in = ParseInput(NoText, 0, <<>>, FALSE)
    /\ p_pc = "unused"
    /\ p_res = Returned(<<>>)
    /\ AppConstructed
    /\ DefaultForm
    /\ fs = (FileA :> Doc(MaxPages))

PointCall ==
    /\ px.pc = "input"
    /\ px' = [px EXCEPT !.pc = "done", !.out = bw_point(px.x, px.threshold)]
    /\ UNCHANGED <<p_in, p_pc, p_res, form_vars, batch_vars>>

NextPixel == PointCall

SpecPixel == InitPixel /\ [][NextPixel]_vars
\* ------------------------------------------------------ the batch: helpers
Exists(path) == path \in DOMAIN fs

\* fitz.open(path) returns a document
Opens(path) == Exists(path) /\ fs[path].st = "pdf"

\* fs with path created or replaced
WriteFile(path, content) == [q \in DOMAIN fs \cup {path} |-> IF q = path THEN content ELSE fs[q]]

Outcome(index, file, kind) == [index |-> index, file |-> file, kind |-> kind]

\* the readings datetime.now() can give: read only if a timestamp is asked for
ClockReadings == IF timestamp_var THEN clock..MaxClock ELSE {clock}

\* PDFConverterApp.generate_output_path
generate_output_path(input_path, now) ==
    LET output_dir == IF output_dir_entry # "" THEN output_dir_entry ELSE input_path[1]
        base == input_path[2]
        with_suffix == IF suffix_entry # "" THEN base \o suffix_entry ELSE base
        with_time == IF timestamp_var THEN with_suffix \o "_" \o ToString(now)
                     ELSE with_suffix
    IN  <<output_dir, with_time>>

\* convert_next_file, lines 516-525: the page_range handed to the worker.
\* None if the field is empty, if the document does not open, or if
\* parse_page_range raises (both are caught by the except at line 523).
ResolveRange(input_path) ==
    LET page_range_str == Strip(page_range_entry) IN
    IF page_range_str = <<>> THEN NoRange
    ELSE IF ~Opens(input_path) THEN NoRange
    ELSE LET r == parse_page_range(page_range_str, fs[input_path].pages)
         IN  IF r.kind = "raise" THEN NoRange
             ELSE [none |-> FALSE, pages |-> r.pages]

\* threading.Thread(target=self.run_conversion, args=...).start()
StartThread(input_path, output_path) ==
    w' = [WorkerNone EXCEPT !.pc = "begin", !.input = input_path, !.output = output_path,
                            !.page_range = ResolveRange(input_path),
                            !.expr = Strip(page_range_entry),
                            !.existed = Exists(output_path),
                            !.before = IF Exists(output_path) THEN fs[output_path] ELSE Corrupt]

\* lines 505-507 and 510-512: log "Überspringen", advance, call convert_next_file
SkipFile(input_path) ==
    /\ outcomes' = Append(outcomes, Outcome(current_file_index, input_path, "skipped"))
    /\ current_file_index' = current_file_index + 1
    /\ main' = [MainIdle EXCEPT !.pc = "cnf"]

\* ------------------------------------------------- the user and the form
UiFree == main.pc = "idle" /\ hist.ui_ops < MaxUiOps
UiCount == hist' = [hist EXCEPT !.ui_ops = @ + 1]
\* the same, for an operation that sets self.input_files
UiCountList ==
    hist' = [hist EXCEPT !.ui_ops = @ + 1,
                         !.disturbed = @ \/ (~btn_enabled /\ input_files' # hist.batch)]

\* browse_input: the dialog returned a non-empty selection
browse_input ==
    /\ UiFree
    /\ \E file_paths \in FileLists : input_files' = file_paths
    /\ UiCountList
    /\ UNCHANGED <<parse_vars, form_vars, current_file_index, total_files, settings,
                   btn_enabled, main, after_cnf, w, fs, clock, outcomes>>

clear_input ==
    /\ UiFree
    /\ input_files' = <<>>
    /\ UiCountList
    /\ UNCHANGED <<parse_vars, form_vars, current_file_index, total_files, settings,
                   btn_enabled, main, after_cnf, w, fs, clock, outcomes>>

\* the user edits one field of the form
EditForm ==
    /\ UiFree
    /\ \/ \E v \in PageRangeChoices \ {page_range_entry} :
            /\ page_range_entry' = v
            /\ UNCHANGED <<overwrite_var, output_dir_entry, suffix_entry, timestamp_var>>
       \/ \E v \in OverwriteChoices \ {overwrite_var} :
            /\ overwrite_var' = v
            /\ UNCHANGED <<page_range_entry, output_dir_entry, suffix_entry, timestamp_var>>
       \/ \E v \in OutputDirChoices \ {output_dir_entry} :
            /\ output_dir_entry' = v
            /\ UNCHANGED <<page_range_entry, overwrite_var, suffix_entry, timestamp_var>>
       \/ \E v \in SuffixChoices \ {suffix_entry} :
            /\ suffix_entry' = v
            /\ UNCHANGED <<page_range_entry, overwrite_var, output_dir_entry, timestamp_var>>
       \/ /\ timestamp_var' = ~timestamp_var
          /\ UNCHANGED <<page_range_entry, overwrite_var, output_dir_entry, suffix_entry>>
    /\ UiCount
    /\ UNCHANGED <<parse_vars, input_files, current_file_index, total_files, settings,
                   btn_enabled, main, after_cnf, w, fs, clock, outcomes>>

\* the button answers a click whatever its state
ConvertBtnAlways == TRUE
\* the button "Konvertieren" runs its command only in state NORMAL; line 482
\* sets it to DISABLED, line 490 back to NORMAL
ConvertBtnNormal == btn_enabled

\* start_conversion (the button is disabled while a batch runs; with no file
\* chosen it only shows a warning and returns)
start_conversion ==
    /\ UiFree
    /\ ConvertBtnNormal
    /\ input_files # <<>>
    /\ settings' = [overwrite |-> overwrite_var]        \* save_app_settings
    /\ current_file_index' = 0
    /\ total_files' = Len(input_files)
    /\ btn_enabled' = FALSE
    /\ main' = [MainIdle EXCEPT !.pc = "cnf"]            \* self.convert_next_file()
    /\ hist' = [hist EXCEPT !.ui_ops = @ + 1, !.batch = input_files, !.disturbed = FALSE,
                         !.form = Form, !.written = <<>>]
    /\ outcomes' = <<>>                                  \* the log is reset
    /\ UNCHANGED <<parse_vars, form_vars, input_files, after_cnf, w, fs, clock>>

\* the event loop runs the callback that run_conversion scheduled
after_callback ==
    /\ main.pc = "idle"
    /\ after_cnf
    /\ after_cnf' = FALSE
    /\ main' = [MainIdle EXCEPT !.pc = "cnf"]
    /\ UNCHANGED <<parse_vars, form_vars, input_files, current_file_index, total_files,
                   settings, btn_enabled, w, fs, clock, outcomes, hist>>

\* ------------------------------------------------------ convert_next_file
\* lines 488-491: the list is exhausted
CnfComplete ==
    /\ main.pc = "cnf"
    /\ current_file_index >= total_files
    /\ btn_enabled' = TRUE
    /\ main' = MainIdle
    /\ hist' = [hist EXCEPT !.completed = @ + 1]
    /\ UNCHANGED <<parse_vars, form_vars, input_files, current_file_index, total_files,
                   settings, after_cnf, w, fs, clock, outcomes>>

\* line 493: self.input_files[self.current_file_index] raises IndexError;
\* the callback ends there
CnfIndexError ==
    /\ main.pc = "cnf"
    /\ current_file_index < total_files
    /\ current_file_index >= Len(input_files)
    /\ main' = MainIdle
    /\ hist' = [hist EXCEPT !.crashed = TRUE]
    /\ UNCHANGED <<parse_vars, form_vars, input_files, current_file_index, total_files,
                   settings, btn_enabled, after_cnf, w, fs, clock, outcomes>>

CnfReady ==
    /\ main.pc = "cnf"
    /\ current_file_index < total_files
    /\ current_file_index < Len(input_files)

\* lines 497-503: the output exists and the policy is "ask": the dialog opens
CnfAsk ==
    /\ CnfReady
    /\ \E now \in ClockReadings :
         LET input_path == input_files[current_file_index + 1]
             output_path == generate_output_path(input_path, now)
         IN  /\ Exists(output_path)
             /\ settings.overwrite = "ask"
             /\ clock' = now
             /\ main' = [pc |-> "ask", input |-> input_path, output |-> output_path]
    /\ UNCHANGED <<parse_vars, form_vars, input_files, current_file_index, total_files,
                   settings, btn_enabled, after_cnf, w, fs, outcomes, hist>>

\* CnfSkip with the skip forgotten: the file is converted all the same
CnfSkipConverts ==
    /\ CnfReady
    /\ \E now \in ClockReadings :
         LET input_path == input_files[current_file_index + 1]
             output_path == generate_output_path(input_path, now)
         IN  /\ Exists(output_path)
             /\ settings.overwrite = "skip"
             /\ clock' = now
             /\ StartThread(input_path, output_path)
    /\ main' = MainIdle
    /\ UNCHANGED <<parse_vars, form_vars, input_files, current_file_index, total_files,
                   settings, btn_enabled, after_cnf, fs, outcomes, hist>>

\* lines 509-513: the output exists and the policy is "skip"
CnfSkip ==
    /\ CnfReady
    /\ \E now \in ClockReadings :
         LET input_path == input_files[current_file_index + 1]
             output_path == generate_output_path(input_path, now)
         IN  /\ Exists(output_path)
             /\ settings.overwrite = "skip"
             /\ clock' = now
             /\ SkipFile(input_path)
    /\ UNCHANGED <<parse_vars, form_vars, input_files, total_files, settings, btn_enabled,
                   after_cnf, w, fs, hist>>

\* lines 515-532: no existing output, or the policy is "overwrite"
CnfStart ==
    /\ CnfReady
    /\ \E now \in ClockReadings :
         LET input_path == input_files[current_file_index + 1]
             output_path == generate_output_path(input_path, now)
         IN  /\ ~Exists(output_path) \/ settings.overwrite = "overwrite"
             /\ clock' = now
             /\ StartThread(input_path, output_path)
    /\ main' = MainIdle
    /\ UNCHANGED <<parse_vars, form_vars, input_files, current_file_index, total_files,
                   settings, btn_enabled, after_cnf, fs, outcomes, hist>>

\* AskNo with the answer ignored: the file is converted all the same
AskNoConverts ==
    /\ main.pc = "ask"
    /\ StartThread(main.input, main.output)
    /\ main' = MainIdle
    /\ outcomes' = Append(outcomes, Outcome(current_file_index, main.input, "skipped"))
    /\ UNCHANGED <<parse_vars, form_vars, input_files, current_file_index, total_files,
                   settings, btn_enabled, after_cnf, fs, clock, hist>>

\* lines 504-508: the user answers "no"
AskNo ==
    /\ main.pc = "ask"
    /\ SkipFile(main.input)
    /\ UNCHANGED <<parse_vars, form_vars, input_files, total_files, settings, btn_enabled,
                   after_cnf, w, fs, clock, hist>>

\* the user answers "yes": the handler goes on at line 515
AskYes ==
    /\ main.pc = "ask"
    /\ StartThread(main.input, main.output)
    /\ main' = MainIdle
    /\ UNCHANGED <<parse_vars, form_vars, input_files, current_file_index, total_files,
                   settings, btn_enabled, after_cnf, fs, clock, outcomes, hist>>

convert_next_file ==
    CnfComplete \/ CnfIndexError \/ CnfAsk \/ CnfSkip \/ CnfStart \/ AskNo \/ AskYes

\* ---------------------------------- run_conversion and convert_pdf_to_bw
\* The worker thread, one step per stage of the pipeline. A stage that can
\* raise (render or encode a page, open the output, assemble, write) takes
\* either outcome.
WVars == <<parse_vars, form_vars, input_files, total_files, settings, btn_enabled, main,
           clock, hist>>

\* A call of progress_callback(percent, message): the percent is kept as the
\* fraction the code computes, the message by what it announces (the file
\* being checked, a page, the success, an error).
Percent(n) == [num |-> n, den |-> 1]
Event(percent, kind) == [percent |-> percent, kind |-> kind]
StartEvent == Event(Percent(0), "start")
ErrorEvent == Event(Percent(0), "error")
DoneEvent == Event(Percent(100), "done")
\* PagePercent counting one page too many
PagePercentAhead(idx, num_pages) == [num |-> (idx + 2) * 100, den |-> num_pages]
\* line 142: (idx+1)/num_pages * 100
PagePercent(idx, num_pages) == [num |-> (idx + 1) * 100, den |-> num_pages]
PageEvent(idx, num_pages) == Event(PagePercent(idx, num_pages), "page")

\* Encode putting the page in front
EncodeInFront(bw_images, page_num) == <<page_num>> \o bw_images
\* line 159: bw_images.append(img_bytes.getvalue()); an encoded image is
\* known by the page it shows
Encode(bw_images, page_num) == Append(bw_images, page_num)

\* progress_callback(0, error_msg); logger.error(...); the run returns False
Fail(progress) ==
    /\ w' = [w EXCEPT !.pc = "ret", !.success = FALSE,
                      !.progress = Append(progress, ErrorEvent)]
    /\ outcomes' = Append(outcomes, Outcome(current_file_index, w.input, "failure"))

\* PagesToDo taking no range for the first page alone
PagesToDoFirst(page_range, total_pages) ==
    IF page_range.none THEN PyRange(0, 1)
    ELSE SelectSeq(page_range.pages, LAMBDA p : p < total_pages)

\* page_range = [p for p in page_range if p < total_pages], or all pages
PagesToDo(page_range, total_pages) ==
    IF page_range.none THEN PyRange(0, total_pages)
    ELSE SelectSeq(page_range.pages, LAMBDA p : p < total_pages)

\* W_Open without the checks of lines 108 and 120: a file that is missing or
\* does not open is taken for a one-page document
W_OpenUnchecked ==
    /\ w.pc = "begin"
    /\ LET total_pages == IF Opens(w.input) THEN fs[w.input].pages ELSE 1
           page_range == PagesToDo(w.page_range, total_pages)
           progress == Append(w.progress, StartEvent)
       IN  IF page_range = <<>> THEN Fail(progress)
           ELSE /\ w' = [w EXCEPT !.pc = "page", !.todo = page_range, !.idx = 0,
                                  !.progress = progress]
                /\ UNCHANGED outcomes
    /\ UNCHANGED <<WVars, current_file_index, after_cnf, fs>>

\* lines 105-137: the input path is checked, the document is opened and the
\* pages are chosen
W_Open ==
    /\ w.pc = "begin"
    /\ LET progress == Append(w.progress, StartEvent) IN                \* line 106
       IF ~Exists(w.input) THEN Fail(progress)                          \* line 108
       ELSE IF ~Opens(w.input) THEN Fail(progress)                      \* line 120 raises
       ELSE LET page_range == PagesToDo(w.page_range, fs[w.input].pages) IN
            IF page_range = <<>> THEN Fail(progress)                    \* line 130
            ELSE /\ w' = [w EXCEPT !.pc = "page", !.todo = page_range, !.idx = 0,
                                   !.progress = progress]
                 /\ UNCHANGED outcomes
    /\ UNCHANGED <<WVars, current_file_index, after_cnf, fs>>

\* lines 139-159: the page is announced, then loaded, rendered, transformed
\* and encoded; if one of these raises, the except clause of line 178 reports
\* the error
W_Page ==
    /\ w.pc = "page"
    /\ LET page_num == w.todo[w.idx + 1]
           progress == Append(w.progress, PageEvent(w.idx, Len(w.todo)))
       IN  \E ok \in BOOLEAN :
             IF ok
             THEN /\ w' = [w EXCEPT !.encoded = Encode(@, page_num),
                                    !.rastered = @ + 1,
                                    !.idx = @ + 1,
                                    !.progress = progress,
                                    !.pc = IF w.idx + 1 = Len(w.todo) THEN "output"
                                           ELSE "page"]
                  /\ UNCHANGED outcomes
             ELSE /\ w' = [w EXCEPT !.pc = "ret", !.success = FALSE, !.rastered = @ + 1,
                                    !.progress = Append(progress, ErrorEvent)]
                  /\ outcomes' = Append(outcomes,
                                        Outcome(current_file_index, w.input, "failure"))
    /\ UNCHANGED <<WVars, current_file_index, after_cnf, fs>>

\* lines 161-176: with open(output_pdf, "wb") as f: f.write(img2pdf.convert(..)).
\* open creates or truncates the destination, then the document is
\* assembled, then written; each of the three can raise.
W_Output ==
    /\ w.pc = "output"
    /\ \/ Fail(w.progress) /\ UNCHANGED <<fs, hist>>                       \* open raises
       \/ /\ Fail(w.progress)                                           \* convert raises
          /\ fs' = WriteFile(w.output, Empty(w.input))
          /\ UNCHANGED hist
       \/ /\ Fail(w.progress)                                           \* write raises
          /\ fs' = WriteFile(w.output, Partial(w.input))
          /\ UNCHANGED hist
       \/ /\ fs' = WriteFile(w.output, Converted(Len(w.encoded), w.input))
          /\ w' = [w EXCEPT !.pc = "ret", !.success = TRUE,
                            !.progress = Append(@, DoneEvent)]
          /\ hist' = [hist EXCEPT !.written = Append(@, [file |-> w.input,
                                                         output |-> w.output])]
          /\ outcomes' = Append(outcomes, Outcome(current_file_index, w.input, "success"))
    /\ UNCHANGED <<parse_vars, form_vars, input_files, total_files, settings, btn_enabled,
                   main, clock, current_file_index, after_cnf>>

\* W_Return that goes on to the next file only after a success
W_ReturnOnlyOnSuccess ==
    /\ w.pc = "ret"
    /\ IF w.success
       THEN current_file_index' = current_file_index + 1 /\ after_cnf' = TRUE
       ELSE UNCHANGED <<current_file_index, after_cnf>>
    /\ w' = WorkerNone
    /\ UNCHANGED <<WVars, fs, outcomes>>

\* run_conversion, lines 566-570: the index advances and convert_next_file
\* is scheduled, whatever convert_pdf_to_bw returned
W_Return ==
    /\ w.pc = "ret"
    /\ current_file_index' = current_file_index + 1
    /\ after_cnf' = TRUE
    /\ w' = WorkerNone
    /\ UNCHANGED <<WVars, fs, outcomes>>

run_conversion ==
    W_Open \/ W_Page \/ W_Output \/ W_Return

\* ------------------------------------------------------- the application
\* the files on disk when the application starts: a.pdf and c.pdf are
\* documents, and so is a.pdf of the other directory; b.pdf is either
\* missing or not a document; an earlier output of a.pdf may be there
Worlds ==
    { (FileA :> Doc(MaxPages)) @@ (FileC :> Doc(1)) @@ (FileA2 :> Doc(1)),
      (FileA :> Doc(MaxPages)) @@ (FileC :> Doc(1)) @@ (FileA2 :> Doc(1))
          @@ (FileB :> Corrupt) @@ (<<"d1", "a_SW">> :> Doc(1)) }

\* __init__ with no settings file: the form shows DEFAULT_SETTINGS (lines
\* 33-43), no file is chosen
Init ==
    /\ AppConstructed
    /\ DefaultForm
    /\ fs \in Worlds
    /\ px = NoPixel
    /\ p_in = ParseInput(NoText, 0, <<>>, FALSE)
    /\ p_pc = "unused"
    /\ p_res = Returned(<<>>)

Next ==
    \/ browse_input
    \/ clear_input
    \/ EditForm
    \/ start_conversion
    \/ after_callback
    \/ convert_next_file
    \/ run_conversion

Spec == Init /\ [][Next]_vars

\* The event loop runs every callback that is due, a prompt is answered, and
\* the worker thread is scheduled.
FairSpec ==
    /\ Spec
    /\ WF_vars(after_callback)
    /\ WF_vars(convert_next_file)
    /\ WF_vars(run_conversion)
\* ======================================================== claims C8 - C10
\* What the specification (4.1) says of a malformed term: it is dropped and
\* the other terms still count. The same walk over the parts as
\* parse_page_range, with an unparsable range term dropped.
RECURSIVE LenientParts(_, _, _)
LenientParts(parts, total_pages, pages) ==
    IF parts = <<>> THEN Sorted(ToSet(pages))
    ELSE
      LET part == Strip(Head(parts)) IN
      IF Contains(part, "-")
      THEN LET start_end == Split(part, "-") IN
           IF /\ Len(start_end) = 2
              /\ Strip(start_end[1]) # <<>> => IsInt(Strip(start_end[1]))
              /\ Strip(start_end[2]) # <<>> => IsInt(Strip(start_end[2]))
           THEN LenientParts(Tail(parts), total_pages,
                    pages \o RangeTerm(Strip(start_end[1]), Strip(start_end[2]), total_pages))
           ELSE LenientParts(Tail(parts), total_pages, pages)
      ELSE LenientParts(Tail(parts), total_pages, pages \o SingleTerm(part, total_pages))

LenientPages(expr, total_pages) ==
    IF Strip(expr) = <<>> THEN PyRange(0, total_pages)
    ELSE LenientParts(Split(expr, ","), total_pages, <<>>)

\* C8 (as claimed): for every expression and page count parse_page_range
\* returns a result and never raises; a malformed term is dropped and the
\* remaining terms still contribute their pages.
C8_NeverRaises ==
    p_pc = "done" =>
        /\ p_res.kind = "ok"
        /\ p_res.pages = LenientPages(p_in.expr, p_in.total)

StrictlyIncreasing(seq) == \A i \in 1..(Len(seq) - 1) : seq[i] < seq[i + 1]

\* C9: the list parse_page_range returns is strictly increasing (sorted,
\* no duplicates) and every element e satisfies 0 <= e < page_count.
C9_SortedInRange ==
    (p_pc = "done" /\ p_res.kind = "ok") =>
        /\ StrictlyIncreasing(p_res.pages)
        /\ \A i \in DOMAIN p_res.pages :
              0 <= p_res.pages[i] /\ p_res.pages[i] < p_in.total

\* C9 witness: "2,1" on a 2-page document is returned in ascending order.
C9_Witness ==
    /\ p_pc = "done"
    /\ p_in.expr = <<"2", ",", "1">>
    /\ p_in.total = 2
    /\ p_res = Returned(<<0, 1>>)

\* The reference semantics of a well-formed expression, term by term, as
\* sets of 0-based indices.
RefTerm(t, page_count) ==
    IF t.kind = "single"
    THEN IF 1 <= t.a /\ t.a <= page_count THEN {t.a - 1} ELSE {}
    ELSE LET lo == IF t.a = Missing THEN 1 ELSE Max(1, t.a)
             hi == IF t.b = Missing THEN page_count ELSE Min(page_count, t.b)
         IN  {q - 1 : q \in lo..hi}

RefPages(terms, page_count) ==
    UNION {RefTerm(terms[i], page_count) : i \in DOMAIN terms}

\* C10 (as claimed): on every comma-separated expression of integer
\* singletons and ranges parse_page_range returns the union of the terms'
\* pages under the reference semantics; and the four worked examples give
\* [0,1,2,5], [7,8,9], [0,1,2] and [1].
AgreesWithReference ==
    p_in.wf =>
        /\ p_res.kind = "ok"
        /\ ToSet(p_res.pages) = RefPages(p_in.terms, p_in.total)
        /\ Len(p_res.pages) = Cardinality(RefPages(p_in.terms, p_in.total))

OtherExamples ==
    /\ (p_in.expr = ExprStr(Ex2Terms) /\ p_in.total = 10) => p_res = Returned(<<7, 8, 9>>)
    /\ (p_in.expr = ExprStr(Ex3Terms) /\ p_in.total = 5) => p_res = Returned(<<0, 1, 2>>)
    /\ (p_in.expr = Ex4Str /\ p_in.total = 5) => p_res = Returned(<<1>>)

C10_AsClaimed ==
    p_pc = "done" =>
        /\ AgreesWithReference
        /\ OtherExamples
        /\ (p_in.expr = ExprStr(Ex1Terms) /\ p_in.total = 10) => p_res = Returned(<<0, 1, 2, 5>>)

\* C10 (amended): the same, with parse("1-3,5", 10) = [0,1,2,4]: page 5 is
\* index 4, as the reference semantics itself says.
C10_Reference ==
    p_pc = "done" =>
        /\ AgreesWithReference
        /\ OtherExamples
        /\ (p_in.expr = ExprStr(Ex1Terms) /\ p_in.total = 10) => p_res = Returned(<<0, 1, 2, 4>>)

\* C10 witness: "1-3,5" on a 10-page document has been parsed to [0,1,2,4].
C10_Witness ==
    /\ p_pc = "done"
    /\ p_in.expr = <<"1", "-", "3", ",", "5">>
    /\ p_in.total = 10
    /\ p_in.wf
    /\ p_res = Returned(<<0, 1, 2, 4>>)

\* ========================================================= claims C1 - C7
LastOutcome(seq) == seq[Len(seq)]
Reported(kind) ==
    /\ Len(outcomes') = Len(outcomes) + 1
    /\ LastOutcome(outcomes').kind = kind

\* a batch is running and no callback has raised
BatchRunning == ~btn_enabled /\ ~hist.crashed

\* the step of convert_next_file on a file that is in the list
AttemptsFile(file) ==
    \/ main'.pc = "ask" /\ main'.input = file
    \/ w'.pc = "begin" /\ w'.input = file
    \/ Reported("skipped") /\ LastOutcome(outcomes').file = file

C1_Step ==
    /\ (w.pc = "ret" /\ ~w.success /\ w'.pc # "ret") =>
          /\ current_file_index' = current_file_index + 1
          /\ after_cnf'
    /\ Reported("failure") =>
          /\ w'.pc = "ret"
          /\ LastOutcome(outcomes').index = current_file_index
          /\ UNCHANGED <<current_file_index, total_files, main, btn_enabled>>
    /\ (main.pc = "cnf" /\ main' # main /\ current_file_index < total_files
            /\ current_file_index < Len(input_files)) =>
          AttemptsFile(input_files[current_file_index + 1])
    /\ hist'.completed # hist.completed => current_file_index >= total_files

C1_Pending == BatchRunning => (main.pc # "idle" \/ after_cnf \/ w.pc # "none")

\* C1: whatever makes the conversion of file i fail (input missing,
\* document does not open, empty page selection, a page's render or encode
\* error, assembly or write error), the worker still returns, the index
\* advances by one and convert_next_file is scheduled; that call attempts
\* the file at the new index when the list has one, and the batch-complete
\* event comes only once the index has reached total_files.
C1_FailureContinues == []C1_Pending /\ [][C1_Step]_vars

\* C1 witness: a file has failed and the file after it has its outcome.
C1_Witness ==
    \E k \in 1..(Len(outcomes) - 1) :
        /\ outcomes[k].kind = "failure"
        /\ outcomes[k + 1].index = outcomes[k].index + 1

\* the orchestrator is at rest: nothing runs and nothing is scheduled
AtRest ==
    /\ hist.batch # <<>>
    /\ main.pc = "idle"
    /\ w.pc = "none"
    /\ ~after_cnf

OneOutcomePerFile ==
    /\ Len(outcomes) = Len(hist.batch)
    /\ \A k \in DOMAIN outcomes :
          /\ outcomes[k].index = k - 1
          /\ outcomes[k].file = hist.batch[k]

\* C2 (as claimed): in a batch of n files every file receives exactly one
\* terminal outcome, in the order of the input list: once the orchestrator
\* is at rest, the outcomes are one per file of the batch, in list order.
C2_OneOutcomePerFile == AtRest => OneOutcomePerFile

\* C2, for the batches whose list the user leaves alone while they run: one
\* outcome per file in list order, the batch ends with the complete event,
\* and a file that does not open fails without stopping the files after it.
C2_Undisturbed ==
    (AtRest /\ ~hist.disturbed) =>
        /\ OneOutcomePerFile
        /\ btn_enabled
        /\ \A k \in DOMAIN outcomes :
              (outcomes[k].file = FileB) => outcomes[k].kind # "success"

\* the destination of the running conversion is as it was before the run
DestinationUntouched ==
    IF w.existed THEN Exists(w.output) /\ fs[w.output] = w.before
    ELSE ~Exists(w.output)

\* C3 (as claimed): whenever convert_pdf_to_bw ends in failure the
\* destination path is exactly as it was before the run: not created, not
\* truncated, not partly written.
C3_FailureLeavesDestination == (w.pc = "ret" /\ ~w.success) => DestinationUntouched

\* C3 for the failures before line 162 (the checks and the pages): up to the
\* moment the destination is opened, nothing has touched it.
C3_UntouchedBeforeOutput == (w.pc \in {"begin", "page", "output"}) => DestinationUntouched

\* the step of the pipeline on an input that is missing or does not open
C4_Step ==
    (w.pc = "begin" /\ ~Opens(w.input) /\ w' # w) =>
        /\ w'.pc = "ret"
        /\ ~w'.success
        /\ w'.rastered = 0
        /\ w'.encoded = <<>>
        /\ fs' = fs
        /\ Reported("failure")

\* C4: if the input file does not exist or does not open as a document, the
\* first step of the pipeline fails the file: no page is rasterized, the
\* file system is unchanged, a failure is reported and the run returns
\* False.
C4_FailFast == [][C4_Step]_vars

\* C4 witness: the run on b.pdf, which is no document, is about to return
\* False with no page rasterized.
C4_Witness ==
    /\ w.pc = "ret"
    /\ w.input = FileB
    /\ Exists(FileB)
    /\ ~Opens(FileB)
    /\ ~w.success
    /\ w.rastered = 0

\* C5 (as claimed): a non-empty expression that yields no valid page of the
\* file never gets the file as far as rasterizing: a run that is at a page
\* or at the output was given no expression or one with a valid page.
C5_EmptySelectionFails ==
    (w.pc \in {"page", "output"} /\ w.expr # <<>>) =>
        LenientPages(w.expr, fs[w.input].pages) # <<>>

\* the step of convert_next_file under "skip" on a file whose output exists
C6_Step ==
    (/\ main.pc = "cnf"
     /\ main' # main
     /\ current_file_index < total_files
     /\ current_file_index < Len(input_files)
     /\ settings.overwrite = "skip"
     /\ Exists(generate_output_path(input_files[current_file_index + 1], clock'))) =>
        /\ w.pc = "none"
        /\ w' = w
        /\ fs' = fs
        /\ outcomes' = Append(outcomes,
              Outcome(current_file_index, input_files[current_file_index + 1], "skipped"))
        /\ current_file_index' = current_file_index + 1
        /\ main'.pc = "cnf"

C7_Step ==
    \* the prompt is issued only for an existing output under policy "ask"
    /\ (main.pc # "ask" /\ main'.pc = "ask") =>
          /\ settings.overwrite = "ask"
          /\ main'.input = input_files[current_file_index + 1]
          /\ main'.output = generate_output_path(main'.input, clock')
          /\ Exists(main'.output)
          /\ UNCHANGED <<w, fs, current_file_index, outcomes>>
    \* while the prompt is open nothing else moves
    /\ main.pc = "ask" => main'.pc # "ask"
    \* "no": as under policy "skip"
    /\ (main.pc = "ask" /\ main'.pc = "cnf") =>
          /\ w' = w
          /\ fs' = fs
          /\ outcomes' = Append(outcomes, Outcome(current_file_index, main.input, "skipped"))
          /\ current_file_index' = current_file_index + 1
    \* "yes": as under policy "overwrite"
    /\ (main.pc = "ask" /\ main'.pc = "idle") =>
          /\ w'.pc = "begin"
          /\ w'.input = main.input
          /\ w'.output = main.output
          /\ w'.page_range = ResolveRange(main.input)
          /\ UNCHANGED <<fs, current_file_index, outcomes>>

C7_NoWorkerWhileAsking == main.pc = "ask" => (w.pc = "none" /\ ~after_cnf /\ Exists(main.output))

\* C7: under policy "ask" the prompt is issued only when the computed
\* output path exists; no conversion runs or starts while it is open; "no"
\* skips the file as policy "skip" does (skipped, index advanced, no worker,
\* files untouched) and "yes" starts the worker on the file as policy
\* "overwrite" does.
C7_AskDecides == []C7_NoWorkerWhileAsking /\ [][C7_Step]_vars

\* C7 witness: a "no" has been answered: under policy "ask" the file whose
\* output existed is recorded as skipped and its output is still there.
C7_Witness ==
    /\ settings.overwrite = "ask"
    /\ \E k \in DOMAIN outcomes :
          /\ outcomes[k].kind = "skipped"
          /\ outcomes[k].file = FileA
          /\ Exists(<<"d1", "a_SW">>)
          /\ fs[<<"d1", "a_SW">>] = Doc(1)


\* ======================================================= claims C11 - C20
\* the strings of at most n blanks
BlankStrings(n) == {[i \in 1..k |-> " "] : k \in 0..n}

\* the worker has chosen its pages and has not failed on the way
RunsPages == w.pc \in {"page", "output"} \/ (w.pc = "ret" /\ w.success)

\* C11: for every page count >= 1 parse_page_range returns all the pages,
\* 0 .. page_count-1, on an empty or blank expression; and a worker started
\* while the page-range field is empty or blank works on all the pages of
\* its document, and on success writes an output of as many pages.
C11_EmptyIsFullDocument ==
    /\ \A n \in 1..MaxPages, s \in BlankStrings(MaxLen) :
          parse_page_range(s, n) = Returned([i \in 1..n |-> i - 1])
    /\ (RunsPages /\ w.expr = NoText) =>
          /\ w.page_range = NoRange
          /\ Len(w.todo) >= 1
          /\ w.todo = [i \in 1..Len(w.todo) |-> i - 1]
          /\ w.pc # "ret" => Len(w.todo) = fs[w.input].pages
          /\ w.pc = "ret" => fs[w.output] = Converted(Len(w.todo), w.input)

\* C11 witness: a batch started with a blank page-range field has converted
\* both pages of a.pdf.
C11_Witness ==
    /\ hist.form.page_range = <<" ">>
    /\ w.pc = "ret"
    /\ w.success
    /\ w.expr = NoText
    /\ w.input = FileA
    /\ w.todo = <<0, 1>>
    /\ fs[w.output].pages = 2

\* C12: the pages encoded so far are the first pages of the resolved list,
\* in its order; a page is loaded only when all pages before it are encoded;
\* the assembler gets one image per resolved page, in order, and the output
\* written has that many pages; and "2-4" on a 10-page document resolves to
\* the three pages 2, 3, 4 (indices 1, 2, 3).
C12_PagesInOrder ==
    /\ w.pc \in {"page", "output", "ret"} =>
          /\ w.idx <= Len(w.todo)
          /\ w.encoded = SubSeq(w.todo, 1, w.idx)
          /\ w.pc = "page" => w.rastered = w.idx /\ w.idx < Len(w.todo)
          /\ w.pc = "output" => w.rastered = w.idx /\ w.idx = Len(w.todo)
          /\ w.pc = "ret" => w.rastered \in {w.idx, w.idx + 1}
          /\ (w.pc = "ret" /\ w.success) =>
                /\ w.encoded = w.todo
                /\ fs[w.output] = Converted(Len(w.todo), w.input)
    /\ LET r == parse_page_range(<<"2", "-", "4">>, 10)
       IN  /\ r.kind = "ok"
           /\ PagesToDo([none |-> FALSE, pages |-> r.pages], 10) = <<1, 2, 3>>

\* C12 witness: both pages of a.pdf have been encoded in order and written.
C12_Witness ==
    /\ w.pc = "ret"
    /\ w.success
    /\ w.todo = <<0, 1>>
    /\ w.encoded = <<0, 1>>
    /\ fs[w.output] = Converted(2, w.input)

\* every conversion of the running batch has succeeded so far
AllSucceeded == \A k \in DOMAIN outcomes : outcomes[k].kind = "success"

\* C13: in a batch in which every conversion succeeds, two different input
\* files are never written to the same output path.
C13_DistinctOutputs ==
    AllSucceeded =>
        \A i, j \in DOMAIN hist.written :
            hist.written[i].file # hist.written[j].file =>
                hist.written[i].output # hist.written[j].output

ThreadStarts == w'.pc = "begin" /\ w' # w
\* a step that is a click on "Konvertieren" going on to convert_next_file
BatchStarts == main.pc = "idle" /\ main'.pc = "cnf" /\ after_cnf' = after_cnf

C15_Step ==
    /\ ThreadStarts => w.pc = "none"
    /\ BatchStarts => (btn_enabled /\ w.pc = "none" /\ ~after_cnf)
    \* the callback that starts the next worker is scheduled by the last
    \* statement of the worker before it
    /\ (after_cnf' /\ ~after_cnf) => (w.pc = "ret" /\ w'.pc = "none")

\* C15: a worker thread is started only when no worker is alive, a batch is
\* started only when the button is enabled, no worker is alive and no call
\* of convert_next_file is pending; and while a worker is alive the button
\* is disabled and the event loop has no call of convert_next_file to make.
C15_OneWorker ==
    /\ [](w.pc # "none" => (~btn_enabled /\ ~after_cnf /\ main.pc = "idle"))
    /\ [][C15_Step]_vars

\* C15 witness: the worker of the second file of a batch has been started,
\* after the first file's worker returned.
C15_Witness ==
    /\ w.pc = "begin"
    /\ current_file_index = 1
    /\ Len(outcomes) = 1
    /\ w.input = input_files[2]

\* C16: every batch that is started reaches the "all conversions completed"
\* event, which re-enables the button.
C16_BatchCompletes == (~btn_enabled) ~> btn_enabled

\* the same for a batch whose list of files is left alone while it runs
C16_Undisturbed == (~btn_enabled /\ ~hist.disturbed) ~> (btn_enabled \/ hist.disturbed)

\* the event is emitted only when the index has reached the number of files
C16_CompleteStep ==
    (hist'.completed # hist.completed) =>
        /\ hist'.completed = hist.completed + 1
        /\ ~btn_enabled /\ btn_enabled'
        /\ current_file_index >= total_files
        /\ w.pc = "none"
C16_CompleteOnlyAtEnd == [][C16_CompleteStep]_vars

\* percent a is at most percent b
PercentLeq(a, b) == a.num * b.den <= b.num * a.den
Terminal(e) == e.kind \in {"done", "error"}

\* C17: every progress event of a run carries a percent within 0..100; the
\* first is the file-start event with percent 0; then come page events, one
\* per page taken up, in order, with non-decreasing percent; a run that has
\* ended has exactly one terminal event, the last one: percent 100 with the
\* output written after a success, an error event after a failure.
C17_ProgressEvents ==
    w.pc \in {"page", "output", "ret"} =>
        LET progress == w.progress
            n == Len(progress)
            body == IF w.pc = "ret" THEN SubSeq(progress, 2, n - 1)
                    ELSE SubSeq(progress, 2, n)
        IN  /\ n >= 1
            /\ \A k \in 1..n :
                  /\ PercentLeq(Percent(0), progress[k].percent)
                  /\ PercentLeq(progress[k].percent, Percent(100))
            /\ progress[1] = StartEvent
            /\ \A k \in DOMAIN body : body[k].kind = "page"
            /\ Len(body) = w.rastered
            /\ Len(body) <= Len(w.todo)
            /\ \A k \in 1..(Len(body) - 1) : PercentLeq(body[k].percent, body[k + 1].percent)
            /\ w.pc = "ret" =>
                  /\ n >= 2
                  /\ Terminal(progress[n])
                  /\ w.success =>
                        /\ progress[n] = DoneEvent
                        /\ Len(body) = Len(w.todo)
                        /\ fs[w.output] = Converted(Len(w.todo), w.input)
                  /\ ~w.success => progress[n].kind = "error"

\* C17 witness: a two-page run has ended in a success after four events.
C17_Witness ==
    /\ w.pc = "ret"
    /\ w.success
    /\ Len(w.todo) = 2
    /\ Len(w.progress) = 4
    /\ w.progress[3].percent = [num |-> 200, den |-> 2]

\* generate_output_path's directory under the form as it was at the start
OutputDirAtStart(input_path) ==
    IF hist.form.output_dir # "" THEN hist.form.output_dir ELSE input_path[1]

\* C18: every worker of a batch runs under the form as it was when the batch
\* was started: its page range is the one of that form, its output goes to
\* the directory of that form, and the overwrite policy is that of the form.
C18_SettingsFrozen ==
    /\ ~btn_enabled => settings.overwrite = hist.form.overwrite
    /\ w.pc # "none" =>
          /\ w.expr = Strip(hist.form.page_range)
          /\ w.output[1] = OutputDirAtStart(w.input)

\* C19: the index stays within 0..total_files, and convert_next_file is
\* about to read input_files only at an index the list has.
C19_IndexInBounds ==
    /\ 0 <= current_file_index
    /\ current_file_index <= total_files
    /\ (main.pc = "cnf" /\ current_file_index < total_files) =>
          current_file_index < Len(input_files)

\* the index is within 0..total_files, whatever the user does
C19_IndexWithinTotal == 0 <= current_file_index /\ current_file_index <= total_files

\* C20: a worker whose input file exists never has that file as its output
\* path.
C20_OutputIsNotInput == (w.pc # "none" /\ Exists(w.input)) => w.output # w.input

\* C20, the effect: the input of a run is as it was before the run.
C20_InputUntouched ==
    (w.pc = "ret" /\ w.existed /\ w.output = w.input) => fs[w.input] = w.before
====
